---- MODULE Spec2Model ----
(***************************************************************************)
(* Verification model of the row-parallel path tracer in src/main.rs.      *)
(*                                                                         *)
(* Two state machines are described over one set of variables:             *)
(*   SpecRC  a single call of ray_color, run frame by frame, with the      *)
(*           scene's answer to each query chosen freely;                   *)
(*   Spec    main(): the spawn loop, the row tasks and the join/print      *)
(*           loop, every task running its own ray_color calls.             *)
(*                                                                         *)
(* Numbers are fixed point.  A colour component c stands for c/10, a       *)
(* jitter offset j for j/JitterLevels, a ray parameter t for t/1000.       *)
(***************************************************************************)
EXTENDS Integers, Sequences, FiniteSets, TLC

(* ------------------------------ sizes --------------------------------- *)
IMAGE_HEIGHT == 3
IMAGE_WIDTH == 1
SAMPLES_PER_PIXEL == 1
MAX_DEPTH == 1
\* largest depth a stand-alone ray_color call is started with (SpecRC)
RcMaxDepth == 3
\* number of values a jitter offset can take
JitterLevels == 2
\* number of distinct states of the main thread's generator
RngMod == 8
\* number of generator states rendering is started from
NumSeeds == 2

T_MIN == 1
INFINITY == 1000000

(* ------------------------------ colours ------------------------------- *)
Black == <<0, 0, 0>>
White == <<10, 10, 10>>
SkyBlue == <<5, 7, 10>>

ColorAdd(a, b) == <<a[1] + b[1], a[2] + b[2], a[3] + b[3]>>

\* Color * Color, component-wise
ColorMul(a, b) ==
    <<(a[1] * b[1]) \div White[1],
      (a[2] * b[2]) \div White[2],
      (a[3] * b[3]) \div White[3]>>

(* ------------------------------- rays --------------------------------- *)
\* A ray is <<u, v>>: the image-plane coordinates it was shot through, in
\* units of 1/JitterLevels of a pixel.  v stands for the direction's height.
VMax == IMAGE_HEIGHT * JitterLevels
UMax == IMAGE_WIDTH * JitterLevels
Rays == (0 .. UMax - 1) \X (0 .. VMax - 1)

\* the sky gradient: (1 - t) * white + t * blue, t from the ray's height
SkyColor(ray) ==
    LET t == ray[2]
    IN  <<((VMax - t) * White[1] + t * SkyBlue[1]) \div VMax,
          ((VMax - t) * White[2] + t * SkyBlue[2]) \div VMax,
          ((VMax - t) * White[3] + t * SkyBlue[3]) \div VMax>>

(* ------------------------------ the scene ----------------------------- *)
\* The spheres main() always adds, by material: the ground and the three
\* large spheres.  Each is [kind, albedo].
TheWorld ==
    << [kind |-> "lambertian", albedo |-> <<5, 5, 5>>],
       [kind |-> "dielectric", albedo |-> White],
       [kind |-> "lambertian", albedo |-> <<4, 2, 1>>],
       [kind |-> "metal",      albedo |-> <<7, 6, 5>>] >>

\* What one scene query plus the material's scatter can answer for a ray:
\* a miss, a hit that is absorbed, or a hit on object obj that scatters
\* into ray nxt.  Only a metal surface declines to scatter.
Outcomes(w, ray) ==
    {[kind |-> "miss", obj |-> 0, nxt |-> ray]}
    \cup {[kind |-> "absorb", obj |-> i, nxt |-> ray] :
            i \in {j \in 1 .. Len(w) : w[j].kind = "metal"}}
    \cup {[kind |-> "scatter", obj |-> i, nxt |-> <<ray[1], VMax - 1 - ray[2]>>] :
            i \in 1 .. Len(w)}

Attenuation(w, o) == w[o.obj].albedo

(* ----------------------------- ray_color ------------------------------ *)
\* A call state is [stack, ret]: the frames of the recursion, outermost
\* first, and the value the last finished frame returned (NoRet: none yet).
\* A frame is [ray, depth, phase, att]; phase is
\*   "entry"   at the top of the function,
\*   "locked"  holding the read guard, about to evaluate hit,
\*   "wait"    suspended in `attenuation * ray_color(..)`.
NoRet == <<>>
EmptyCall == [stack |-> <<>>, ret |-> NoRet]

Top(cs) == cs.stack[Len(cs.stack)]
Pop(cs) == SubSeq(cs.stack, 1, Len(cs.stack) - 1)
SetTop(cs, f) == [cs EXCEPT !.stack[Len(cs.stack)] = f]

RcRunning(cs) == cs.stack # <<>>

RcCall(cs, ray, depth) ==
    [stack |-> Append(cs.stack,
                      [ray |-> ray, depth |-> depth, phase |-> "entry", att |-> Black]),
     ret |-> NoRet]

\* `if depth == 0`
DepthExhausted(depth) == depth = 0

ExhaustedColorSky == White
\* `return Color(0.0, 0.0, 0.0)`
ExhaustedColor == Black

NextDepthSame(depth) == depth
\* `depth - 1`
NextDepth(depth) == depth - 1

\* `hit(ray, 0.001, INFINITY, ..)`
QueryInterval == <<T_MIN, INFINITY>>

\* depth == 0: return black
RcCanReturnBlack(cs) ==
    RcRunning(cs) /\ Top(cs).phase = "entry" /\ DepthExhausted(Top(cs).depth)
RcReturnBlack(cs) == [stack |-> Pop(cs), ret |-> ExhaustedColor]

\* world.read().unwrap()
RcCanLock(cs) ==
    RcRunning(cs) /\ Top(cs).phase = "entry" /\ ~DepthExhausted(Top(cs).depth)
RcLock(cs) == SetTop(cs, [Top(cs) EXCEPT !.phase = "locked"])

RcCanHit(cs) == RcRunning(cs) /\ Top(cs).phase = "locked"

RcHitAbsorbSky(cs, w, o) ==
    IF o.kind = "scatter"
    THEN [stack |-> Append(Pop(cs) \o
                           << [Top(cs) EXCEPT !.phase = "wait",
                                              !.att = Attenuation(w, o)] >>,
                           [ray |-> o.nxt, depth |-> NextDepth(Top(cs).depth),
                            phase |-> "entry", att |-> Black]),
          ret |-> NoRet]
    ELSE [stack |-> Pop(cs), ret |-> SkyColor(Top(cs).ray)]
\* .hit(..) with the guard dropped at the end of the condition, then the
\* material's scatter: recurse, or return black, or return the sky
RcHit(cs, w, o) ==
    IF o.kind = "scatter"
    THEN [stack |-> Append(Pop(cs) \o
                           << [Top(cs) EXCEPT !.phase = "wait",
                                              !.att = Attenuation(w, o)] >>,
                           [ray |-> o.nxt, depth |-> NextDepth(Top(cs).depth),
                            phase |-> "entry", att |-> Black]),
          ret |-> NoRet]
    ELSE IF o.kind = "absorb"
    THEN [stack |-> Pop(cs), ret |-> Black]
    ELSE [stack |-> Pop(cs), ret |-> SkyColor(Top(cs).ray)]

\* `return attenuation * <value of the recursive call>`
RcCanReturn(cs) ==
    RcRunning(cs) /\ Top(cs).phase = "wait" /\ cs.ret # NoRet
RcReturn(cs) == [stack |-> Pop(cs), ret |-> ColorMul(Top(cs).att, cs.ret)]

RcDone(cs) == ~RcRunning(cs) /\ cs.ret # NoRet

(* ------------------------------ variables ----------------------------- *)
VARIABLES
    world,      \* the HittableList behind the RwLock
    readers,    \* read guards currently held on the RwLock
    writer,     \* TRUE while a write guard is held
    rc,         \* SpecRC: the call state of the ray_color call
    rcRay,      \* SpecRC: the ray the call was started with
    rcDepth,    \* SpecRC: the depth the call was started with
    queries,    \* SpecRC: the intervals of the scene queries made, in order
    nest,       \* SpecRC: the largest number of frames seen at once
    path,       \* SpecRC: the answers the scene gave, in order
    rng,        \* main: the state of the thread's generator `rng`
    seed0,      \* main: the state `rng` had when rendering started
    offsets,    \* main: the array `offsets`
    pc,         \* main: "spawn", "join", "unwind", "done" or "panicked"
    nSpawned,   \* main: iterations of the spawn loop completed
    handles,    \* main: the Vec `handles`, each handle named by its row
    nJoined,    \* main: handles consumed by the join loop
    out,        \* standard output: the header, then one entry per row
    task        \* the row tasks, by y

rcVars == <<rc, rcRay, rcDepth, queries, nest, path>>
lockVars == <<world, readers, writer>>
mainVars == <<rng, seed0, offsets, pc, nSpawned, handles, nJoined, out>>
vars == <<lockVars, rcVars, mainVars, task>>

\* RwLock::read is granted while no writer holds the lock
ReadLockFree == ~writer

ReadersAfterLeak(r) == r
\* the temporary read guard is dropped when the `if` condition ends
ReadersAfterDrop(r) == r - 1

(* -------------------------------- main -------------------------------- *)
Rows == 0 .. IMAGE_HEIGHT - 1

\* The generator behind `rng`: a fixed step from state to state, a draw
\* being read off the new state's high part.
RngNext(s) == (5 * s + 3) % RngMod
RngOut(s) == (s * JitterLevels) \div RngMod

RECURSIVE RngAfter(_, _)
RngAfter(s, n) == IF n = 0 THEN s ELSE RngAfter(RngNext(s), n - 1)

\* rng.fill(&mut offsets): one draw per element, in order
OffsetsLen == 2 * SAMPLES_PER_PIXEL
FillOffsets(s) == [i \in 1 .. OffsetsLen |-> RngOut(RngAfter(s, i))]
FillState(s) == RngAfter(s, OffsetsLen)

RowOfIterationAscending(i) == i
\* `for y in (0..IMAGE_HEIGHT).rev()`: the row of the i-th iteration, i from 0
RowOfIteration(i) == IMAGE_HEIGHT - 1 - i

\* camera.get_ray(u, v) for sample `sample` of pixel x of row y
GetRay(x, y, offs, sample) ==
    <<x * JitterLevels + offs[2 * sample + 1],
      y * JitterLevels + offs[2 * sample + 2]>>

\* floor of the square root
ISqrt(n) == CHOOSE r \in 0 .. 256 : r * r <= n /\ n < (r + 1) * (r + 1)

\* (256.0 * clamp((c * scale).sqrt(), 0.0, 0.999)) as u8
Quantize(c) ==
    LET q == ISqrt((65536 * c) \div (White[1] * SAMPLES_PER_PIXEL))
    IN  IF q > 255 THEN 255 ELSE q

QuantizeColor(col) == <<Quantize(col[1]), Quantize(col[2]), Quantize(col[3])>>
QuantizeRow(row) == [i \in 1 .. Len(row) |-> QuantizeColor(row[i])]

Header == [kind |-> "P3", width |-> IMAGE_WIDTH, height |-> IMAGE_HEIGHT]

IdleTask ==
    [st |-> "idle", y |-> 0, offs |-> <<>>, x |-> 0, sample |-> 0,
     pixel_color |-> Black, row |-> <<>>, cs |-> EmptyCall, draws |-> <<>>]

MainIdle ==
    /\ rng = 0 /\ seed0 = 0 /\ offsets = <<>> /\ pc = "idle" /\ nSpawned = 0
    /\ handles = <<>> /\ nJoined = 0 /\ out = <<>>
    /\ task = [y \in Rows |-> IdleTask]

RcIdle ==
    /\ rc = EmptyCall /\ rcRay = <<0, 0>> /\ rcDepth = 0 /\ queries = <<>>
    /\ nest = 0 /\ path = <<>>

Init ==
    /\ world = TheWorld
    /\ readers = 0
    /\ writer = FALSE
    /\ rng \in 0 .. NumSeeds - 1
    /\ seed0 = rng
    /\ offsets = [i \in 1 .. OffsetsLen |-> 0]
    /\ pc = "spawn"
    /\ nSpawned = 0
    /\ handles = <<>>
    /\ nJoined = 0
    /\ out = <<>>
    /\ task = [y \in Rows |-> IdleTask]
    /\ RcIdle

TaskOffsetsShared(y) == offsets
\* the offsets the closure of row y reads: its own copy, moved in at spawn
TaskOffsets(y) == task[y].offs

Terminated(y) == task[y].st \in {"finished", "panicked"}

\* one iteration of the spawn loop
Spawn ==
    /\ pc = "spawn"
    /\ nSpawned < IMAGE_HEIGHT
    /\ LET y == RowOfIteration(nSpawned)
       IN  /\ offsets' = FillOffsets(rng)
           /\ rng' = FillState(rng)
           /\ task' = [task EXCEPT ![y] =
                          [IdleTask EXCEPT !.st = "running", !.y = y,
                                           !.offs = offsets']]
           /\ handles' = Append(handles, y)
    /\ nSpawned' = nSpawned + 1
    /\ UNCHANGED <<lockVars, rcVars, seed0, pc, nJoined, out>>

\* the loop is over: println!("P3\n{} {}\n255", ..)
PrintHeader ==
    /\ pc = "spawn"
    /\ nSpawned = IMAGE_HEIGHT
    /\ out' = Append(out, Header)
    /\ pc' = "join"
    /\ UNCHANGED <<lockVars, rcVars, rng, seed0, offsets, nSpawned, handles,
                   nJoined, task>>

\* handle.join().unwrap() on a task that returned (y, row): print the row
JoinOk ==
    /\ pc = "join"
    /\ nJoined < Len(handles)
    /\ LET h == handles[nJoined + 1]
       IN  /\ task[h].st = "finished"
           /\ out' = Append(out, [kind |-> "row", y |-> task[h].y,
                                   data |-> QuantizeRow(task[h].row)])
    /\ nJoined' = nJoined + 1
    /\ UNCHANGED <<lockVars, rcVars, rng, seed0, offsets, pc, nSpawned,
                   handles, task>>

\* handle.join().unwrap() on a task that panicked: main panics
JoinErr ==
    /\ pc = "join"
    /\ nJoined < Len(handles)
    /\ task[handles[nJoined + 1]].st = "panicked"
    /\ pc' = "unwind"
    /\ UNCHANGED <<lockVars, rcVars, rng, seed0, offsets, nSpawned, handles,
                   nJoined, out, task>>

\* thread::scope returns once its closure has and every thread has ended
ScopeExit ==
    /\ pc = "join"
    /\ nJoined = Len(handles)
    /\ \A y \in Rows : task[y].st # "idle" => Terminated(y)
    /\ pc' = "done"
    /\ UNCHANGED <<lockVars, rcVars, rng, seed0, offsets, nSpawned, handles,
                   nJoined, out, task>>

\* thread::scope with a panicked closure: wait for every thread, then
\* resume the panic
ScopeUnwind ==
    /\ pc = "unwind"
    /\ \A y \in Rows : task[y].st # "idle" => Terminated(y)
    /\ pc' = "panicked"
    /\ UNCHANGED <<lockVars, rcVars, rng, seed0, offsets, nSpawned, handles,
                   nJoined, out, task>>

(* ------------------------------ row tasks ----------------------------- *)
AtLoopHead(t) == t.st = "running" /\ ~RcRunning(t.cs) /\ t.cs.ret = NoRet

\* the head of the sample loop: build the ray and call ray_color
TaskSample(y) ==
    LET t == task[y]
    IN  /\ AtLoopHead(t)
        /\ task' = [task EXCEPT ![y].cs =
                       RcCall(EmptyCall,
                              GetRay(t.x, t.y, TaskOffsets(y), t.sample),
                              MAX_DEPTH)]
        /\ UNCHANGED <<lockVars, rcVars, mainVars>>

TaskReturnBlack(y) ==
    /\ task[y].st = "running"
    /\ RcCanReturnBlack(task[y].cs)
    /\ task' = [task EXCEPT ![y].cs = RcReturnBlack(task[y].cs)]
    /\ UNCHANGED <<lockVars, rcVars, mainVars>>

TaskLock(y) ==
    /\ task[y].st = "running"
    /\ RcCanLock(task[y].cs)
    /\ ReadLockFree
    /\ readers' = readers + 1
    /\ task' = [task EXCEPT ![y].cs = RcLock(task[y].cs)]
    /\ UNCHANGED <<world, writer, rcVars, mainVars>>

TaskHit(y) ==
    /\ task[y].st = "running"
    /\ RcCanHit(task[y].cs)
    /\ \E o \in Outcomes(world, Top(task[y].cs).ray) :
          task' = [task EXCEPT ![y].cs = RcHit(task[y].cs, world, o),
                               ![y].draws = Append(@, o)]
    /\ readers' = ReadersAfterDrop(readers)
    /\ UNCHANGED <<world, writer, rcVars, mainVars>>

\* hit or scatter panics: the guard is dropped while unwinding and the
\* thread ends with the panic as its result
TaskPanic(y) ==
    /\ task[y].st = "running"
    /\ RcCanHit(task[y].cs)
    /\ task' = [task EXCEPT ![y].st = "panicked", ![y].cs = EmptyCall]
    /\ readers' = ReadersAfterDrop(readers)
    /\ UNCHANGED <<world, writer, rcVars, mainVars>>

TaskReturn(y) ==
    /\ task[y].st = "running"
    /\ RcCanReturn(task[y].cs)
    /\ task' = [task EXCEPT ![y].cs = RcReturn(task[y].cs)]
    /\ UNCHANGED <<lockVars, rcVars, mainVars>>

\* pixel_color += <the call's value>; at the end of the sample loop
\* row.push(pixel_color); at the end of the row return (y, row)
TaskAccumulate(y) ==
    LET t == task[y]
        pc1 == ColorAdd(t.pixel_color, t.cs.ret)
        lastSample == t.sample + 1 = SAMPLES_PER_PIXEL
        lastPixel == t.x + 1 = IMAGE_WIDTH
    IN  /\ t.st = "running"
        /\ RcDone(t.cs)
        /\ task' = [task EXCEPT ![y] =
               [t EXCEPT !.cs = EmptyCall,
                         !.sample = IF lastSample THEN 0 ELSE t.sample + 1,
                         !.pixel_color = IF lastSample THEN Black ELSE pc1,
                         !.row = IF lastSample THEN Append(t.row, pc1) ELSE t.row,
                         !.x = IF lastSample THEN t.x + 1 ELSE t.x,
                         !.st = IF lastSample /\ lastPixel
                                THEN "finished" ELSE "running"]]
        /\ UNCHANGED <<lockVars, rcVars, mainVars>>

TaskStep(y) ==
    \/ TaskSample(y)
    \/ TaskReturnBlack(y)
    \/ TaskLock(y)
    \/ TaskHit(y)
    \/ TaskPanic(y)
    \/ TaskReturn(y)
    \/ TaskAccumulate(y)

MainStep == Spawn \/ PrintHeader \/ JoinOk \/ JoinErr \/ ScopeExit \/ ScopeUnwind

Next == MainStep \/ \E y \in Rows : TaskStep(y)

Spec == Init /\ [][Next]_vars

\* every thread is scheduled again and again
FairSpec ==
    Spec /\ WF_vars(MainStep) /\ \A y \in Rows : WF_vars(TaskStep(y))

(* ------------------------------- SpecRC ------------------------------- *)
RCInit ==
    /\ world = TheWorld
    /\ readers = 0
    /\ writer = FALSE
    /\ rcRay \in Rays
    /\ rcDepth \in 0 .. RcMaxDepth
    /\ rc = RcCall(EmptyCall, rcRay, rcDepth)
    /\ queries = <<>>
    /\ nest = 1
    /\ path = <<>>
    /\ MainIdle

RCReturnBlack ==
    /\ RcCanReturnBlack(rc)
    /\ rc' = RcReturnBlack(rc)
    /\ UNCHANGED <<lockVars, rcRay, rcDepth, queries, nest, path, mainVars, task>>

RCLock ==
    /\ RcCanLock(rc)
    /\ ReadLockFree
    /\ rc' = RcLock(rc)
    /\ readers' = readers + 1
    /\ UNCHANGED <<world, writer, rcRay, rcDepth, queries, nest, path, mainVars, task>>

RCHit ==
    /\ RcCanHit(rc)
    /\ \E o \in Outcomes(world, Top(rc).ray) :
          /\ rc' = RcHit(rc, world, o)
          /\ path' = Append(path, o)
    /\ readers' = ReadersAfterDrop(readers)
    /\ queries' = Append(queries, QueryInterval)
    /\ nest' = IF Len(rc'.stack) > nest THEN Len(rc'.stack) ELSE nest
    /\ UNCHANGED <<world, writer, rcRay, rcDepth, mainVars, task>>

RCReturn ==
    /\ RcCanReturn(rc)
    /\ rc' = RcReturn(rc)
    /\ UNCHANGED <<lockVars, rcRay, rcDepth, queries, nest, path, mainVars, task>>

RCNext == RCReturnBlack \/ RCLock \/ RCHit \/ RCReturn

SpecRC == RCInit /\ [][RCNext]_vars

(* ======================= properties of ray_color ====================== *)
\* Steps a call state still needs at most: 3 * depth + 1 for the running
\* frame at its entry, one fewer once it holds the guard, one per suspended
\* frame.
RcMeasure(cs) ==
    IF ~RcRunning(cs) THEN 0
    ELSE Cardinality({i \in 1 .. Len(cs.stack) : cs.stack[i].phase = "wait"})
         + (CASE Top(cs).phase = "entry"  -> 3 * Top(cs).depth + 1
              [] Top(cs).phase = "locked" -> 3 * Top(cs).depth
              [] OTHER -> 0)

\* The colour the claim describes for a call of ray_color at `depth` whose
\* scene queries were answered by the sequence p.
RECURSIVE PathColor(_, _, _)
PathColor(ray, p, depth) ==
    IF depth = 0 THEN Black
    ELSE IF p = <<>> THEN NoRet
    ELSE IF Head(p).kind = "miss" THEN SkyColor(ray)
    ELSE IF Head(p).kind = "absorb" THEN Black
    ELSE LET rest == PathColor(Head(p).nxt, Tail(p), depth - 1)
         IN  IF rest = NoRet THEN NoRet
             ELSE ColorMul(TheWorld[Head(p).obj].albedo, rest)

\* C7: a call of ray_color with depth = 0 returns (0,0,0) for every ray,
\* and does so without querying the scene.
C7_DepthZeroIsBlack ==
    (rcDepth = 0 /\ RcDone(rc)) => (rc.ret = <<0, 0, 0>> /\ queries = <<>>)

C7_Witness == rcDepth = 0 /\ RcDone(rc) /\ rcRay = <<0, 1>>

C8_FramesBounded ==
    /\ Len(queries) <= rcDepth
    /\ nest <= rcDepth + 1
    /\ Len(rc.stack) <= nest
    /\ \A i \in 1 .. Len(rc.stack) : rc.stack[i].depth = rcDepth - (i - 1)
    /\ RcMeasure(rc) <= 3 * rcDepth + 1

\* C8: the i-th nested frame runs at depth d - (i - 1), so a call started
\* at depth d makes at most d scene queries and nests at most d + 1 frames,
\* and every step brings the call closer to its end (it terminates).
C8_Terminates ==
    []C8_FramesBounded /\ [][RcMeasure(rc') < RcMeasure(rc)]_vars

C8_Witness ==
    rcDepth = RcMaxDepth /\ RcDone(rc) /\ Len(queries) = rcDepth
    /\ nest = rcDepth + 1

\* C10: every scene query is made on (0.001, +infinity); a frame recurses
\* only after a scatter, and a finished call returns the product of the
\* attenuations along its path times the sky colour at the first miss, or
\* black when the path was absorbed or the depth ran out.
C10_PathColor ==
    /\ \A i \in 1 .. Len(queries) : queries[i] = <<1, INFINITY>>
    /\ \A i \in 1 .. Len(path) - 1 : path[i].kind = "scatter"
    /\ Len(rc.stack) <= Len(path) + 1
    /\ RcDone(rc) => rc.ret = PathColor(rcRay, path, rcDepth)

C10_Witness ==
    /\ RcDone(rc) /\ Len(path) = 3 /\ path[3].kind = "miss"
    /\ path[1].obj # path[2].obj /\ rc.ret \notin {Black, SkyColor(rcRay)}

(* ======================== properties of main ========================== *)
OutRows == SubSeq(out, 2, Len(out))
Spawned(y) == task[y].st # "idle"
SomeTaskPanicked == \E y \in Rows : task[y].st = "panicked"

\* the offsets the n-th fill (n from 0) of a generator started at `seed` gives
NthFill(seed, n) == FillOffsets(RngAfter(seed, n * OffsetsLen))

\* the offsets row y gets in a render of `height` rows started at `seed`
OffsetsOfRow(seed, height, y) == NthFill(seed, height - 1 - y)

\* scene answers a call at `depth` consumes from the front of p
RECURSIVE TraceLen(_, _)
TraceLen(p, depth) ==
    IF depth = 0 \/ p = <<>> THEN 0
    ELSE IF Head(p).kind = "scatter" THEN 1 + TraceLen(Tail(p), depth - 1)
    ELSE 1

\* the colours of samples n, n + 1, .. of row y, in loop order, when the
\* row's offsets are offs and its scene queries are answered by p
RECURSIVE SampleColors(_, _, _, _)
SampleColors(n, p, y, offs) ==
    IF n = IMAGE_WIDTH * SAMPLES_PER_PIXEL THEN <<>>
    ELSE LET ray == GetRay(n \div SAMPLES_PER_PIXEL, y, offs,
                           n % SAMPLES_PER_PIXEL)
             k == TraceLen(p, MAX_DEPTH)
         IN  <<PathColor(ray, p, MAX_DEPTH)>>
             \o SampleColors(n + 1, SubSeq(p, k + 1, Len(p)), y, offs)

RECURSIVE SumColors(_, _, _)
SumColors(cols, from, n) ==
    IF n = 0 THEN Black
    ELSE ColorAdd(cols[from], SumColors(cols, from + 1, n - 1))

ExpectedRow(y, offs, p) ==
    LET cols == SampleColors(0, p, y, offs)
    IN  [x \in 1 .. IMAGE_WIDTH |->
            SumColors(cols, (x - 1) * SAMPLES_PER_PIXEL + 1, SAMPLES_PER_PIXEL)]

\* C1: whatever the interleaving, the rows on the output are always the
\* first rows of IMAGE_HEIGHT-1, IMAGE_HEIGHT-2, .., 0, each the row its own
\* task returned, and a render that ends normally has written all of them.
C1_RowsInImageOrder ==
    /\ Len(OutRows) <= IMAGE_HEIGHT
    /\ \A k \in 1 .. Len(OutRows) :
          /\ OutRows[k].kind = "row"
          /\ OutRows[k].y = IMAGE_HEIGHT - k
          /\ task[IMAGE_HEIGHT - k].st = "finished"
          /\ task[IMAGE_HEIGHT - k].y = IMAGE_HEIGHT - k
          /\ OutRows[k].data = QuantizeRow(task[IMAGE_HEIGHT - k].row)
    /\ pc = "done" => Len(OutRows) = IMAGE_HEIGHT

C1_Witness ==
    /\ Len(OutRows) = 1
    /\ task[0].st = "finished"
    /\ task[IMAGE_HEIGHT - 2].st = "running"

\* C2: whenever anything has been written to the output, every spawned
\* row task has finished.
C2_OutputOnlyAfterAllTasks ==
    out # <<>> => \A y \in Rows : Spawned(y) => Terminated(y)

\* C3: in no state in which a row task has failed has a pixel row been
\* written.
C3_NoRowsWhenATaskFailed ==
    SomeTaskPanicked => OutRows = <<>>

\* C4: the offsets of a row depend on nothing but the row: with the same
\* generator state at the start, a render that spawns a different number of
\* rows before y hands row y the same offsets.
C4_RowOffsetsIndependent ==
    \A y \in Rows : Spawned(y) =>
        \A h \in y + 1 .. IMAGE_HEIGHT + 1 :
            task[y].offs = OffsetsOfRow(seed0, h, y)

\* C5: the output of a finished render is a function of the draws alone
\* (the generator's start state and the scene answers each row got), the
\* same for every schedule of the row tasks.
C5_OutputIndependentOfSchedule ==
    pc = "done" =>
        out = <<Header>> \o
              [k \in 1 .. IMAGE_HEIGHT |->
                 LET y == IMAGE_HEIGHT - k
                 IN  [kind |-> "row", y |-> y,
                      data |-> QuantizeRow(
                                 ExpectedRow(y, OffsetsOfRow(seed0, IMAGE_HEIGHT, y),
                                             task[y].draws))]]

C5_Witness ==
    /\ pc = "done"
    /\ task[0].offs # task[IMAGE_HEIGHT - 1].offs
    /\ offsets # task[IMAGE_HEIGHT - 1].offs
    /\ out[2].data # out[3].data

\* a read guard is held exactly by the running frame of a task evaluating
\* hit: never by a frame suspended in a recursive call, and never a writer
C6_LockDiscipline ==
    /\ ~writer
    /\ readers = Cardinality({y \in Rows : RcCanHit(task[y].cs)})
    /\ \A y \in Rows : \A i \in 1 .. Len(task[y].cs.stack) - 1 :
          task[y].cs.stack[i].phase = "wait"

C6_Settled ==
    /\ \A y \in Rows : Terminated(y)
    /\ readers = 0
    /\ \/ pc = "done" /\ nJoined = IMAGE_HEIGHT /\ Len(OutRows) = IMAGE_HEIGHT
       \/ pc = "panicked" /\ SomeTaskPanicked

\* C6: under fair scheduling every row task ends and main ends, with every
\* row joined and written unless a task panicked; no thread waits on the
\* scene's lock for ever: no guard is held across a recursive call, no
\* writer exists and in the end no guard is held.
C6_RunsToCompletion == []C6_LockDiscipline /\ <>[]C6_Settled

C6_Witness == C6_Settled /\ pc = "done"

C9_Step ==
    /\ ~writer'
    /\ world' = world
    /\ \A y \in Rows : Spawned(y) => TaskOffsets(y)' = TaskOffsets(y)
    /\ \A y \in Rows : Spawned(y) /\ mainVars' # mainVars => task'[y] = task[y]
    /\ \A y, z \in Rows : y # z /\ task'[y] # task[y] => task'[z] = task[z]

\* C9: while rendering the scene is never write-locked nor changed, a step
\* of one thread changes no other task's state, and the offsets a spawned
\* task reads never change, whatever main does to its own array.
C9_NoCrossThreadMutation == [][C9_Step]_vars

C9_Witness ==
    \E y \in Rows :
        /\ task[y].st = "running" /\ task[y].cs.stack # <<>>
        /\ task[y].offs # offsets
        /\ readers > 1
====
